---- MODULE Spec2Model ----
(***************************************************************************)
(* Model of image_metadata_extractor.py: extract_clean_image_info and the  *)
(* field resolvers it calls.  A run of extract_clean_image_info is a       *)
(* sequence of steps over one input file; the resolvers are operators over *)
(* the tag directory that exifread.process_file returned.                  *)
(*                                                                         *)
(* Python values are modelled as follows.                                  *)
(*   dict            a function whose DOMAIN is the set of keys            *)
(*   IfdTag          [printable |-> string, values |-> sequence]           *)
(*   element of      [kind |-> "int" | "Ratio" | "chr", num, den, chr]     *)
(*   IfdTag.values   (an int, an exifread Ratio, a character of a str)     *)
(*   float           [neg |-> BOOLEAN, n |-> Nat, d |-> Nat \ {0}], the    *)
(*                   exact value n/d with the sign kept apart (-0.0)       *)
(*   a call's result [raised |-> BOOLEAN, value |-> ...]: the returned     *)
(*                   value, or the name of the exception it raised         *)
(* Python indexes from 0 and TLA+ from 1: values[0] is values[1] here.     *)
(***************************************************************************)
EXTENDS Integers, Sequences, FiniteSets, TLC

VARIABLES pc, file, info, tags, handles, exc

vars == <<pc, file, info, tags, handles, exc>>

(***************************************************************************)
(* Bounds of the model.                                                    *)
(***************************************************************************)
\* enumerated tags carry first values 0..MaxCode (every table ends at 8 or below)
MaxCode == 9
\* Ratio values of the non-GPS rational tags: num in 0..MaxNum, den in 0..MaxDen
MaxNum == 3
MaxDen == 3

(***************************************************************************)
(* Python values.                                                          *)
(***************************************************************************)
None == [kind |-> "None"]

Ret(v) == [raised |-> FALSE, value |-> v]

Raise(e) == [raised |-> TRUE, value |-> e]

IntVal(n) == [kind |-> "int", num |-> n, den |-> 1, chr |-> ""]

\* exifread.utils.Ratio(num, den): a Fraction; den = 0 is kept as given
Ratio(n, d) == [kind |-> "Ratio", num |-> n, den |-> d, chr |-> ""]

ChrVal(c) == [kind |-> "chr", num |-> 0, den |-> 1, chr |-> c]

IfdTag(p, v) == [printable |-> p, values |-> v]

\* tags.get(key): the tag, or None
Get(t, key) == IF key \in DOMAIN t THEN t[key] ELSE None

\* str(tags.get(key, default)): IfdTag.__str__ is its printable
StrGet(t, key, default) == IF key \in DOMAIN t THEN t[key].printable ELSE default

\* truth value of tags.get(key): an IfdTag defines neither __bool__ nor
\* __len__, so every tag is true and only None is false
Truthy(tag) == tag # None

\* whether values[k] (0-based) exists
HasIndex(tag, k) == Len(tag.values) > k

\* values[0] == n, and values[0] as a dict key: equal to the int n
PyEq(v, n) == v.kind = "int" /\ v.num = n

\* r + s for a call's result r and a str s
PlusStr(r, s) == IF r.raised THEN r ELSE Ret(r.value \o s)

(***************************************************************************)
(* Arithmetic on floats, kept exact.                                       *)
(***************************************************************************)
RECURSIVE GCD(_, _)
GCD(a, b) == IF b = 0 THEN a ELSE GCD(b, a % b)

Float(neg, n, d) == LET g == GCD(n, d) IN [neg |-> neg, n |-> n \div g, d |-> d \div g]

\* float(num) / float(den), den # 0
FDiv(num, den) == Float(FALSE, num, den)

\* x / k for a positive whole k (m / 60.0, s / 3600.0)
FDivBy(x, k) == Float(x.neg, x.n, x.d * k)

\* x + y of two non-negative floats
FAdd(x, y) == Float(FALSE, x.n * y.d + y.n * x.d, x.d * y.d)

\* x *= -1
FNeg(x) == [x EXCEPT !.neg = ~x.neg]

RECURSIVE Pow10(_)
Pow10(p) == IF p = 0 THEN 1 ELSE 10 * Pow10(p - 1)

\* the p low decimal digits of q, with leading zeros
RECURSIVE Digits(_, _)
Digits(q, p) == IF p = 0 THEN "" ELSE Digits(q \div 10, p - 1) \o ToString(q % 10)

\* f"{x:.<p>f}": p decimals, rounded half to even, the sign of x first
FormatFixed(x, p) ==
    LET whole == x.n \div x.d
        scaled == (x.n % x.d) * Pow10(p)
        q0 == scaled \div x.d
        rem == scaled % x.d
        up == 2 * rem > x.d \/ (2 * rem = x.d /\ q0 % 2 = 1)
        q == IF up THEN q0 + 1 ELSE q0
        carry == q = Pow10(p)
    IN  (IF x.neg THEN "-" ELSE "")
        \o ToString(IF carry THEN whole + 1 ELSE whole)
        \o "." \o Digits(IF carry THEN 0 ELSE q, p)

\* str(x) of a float whose decimal expansion ends within five places (every
\* coordinate of the model does): the whole part, a point, the decimals with
\* no trailing zero but at least one digit
FloatStr(x) ==
    LET r == x.n % x.d
        p == CHOOSE k \in 1..5 : /\ (r * Pow10(k)) % x.d = 0
                                 /\ \A j \in 1..(k - 1) : (r * Pow10(j)) % x.d # 0
    IN  (IF x.neg THEN "-" ELSE "")
        \o ToString(x.n \div x.d) \o "." \o Digits((r * Pow10(p)) \div x.d, p)

\* str(Fraction): "n" when the reduced denominator is 1, else "n/d"; a Ratio
\* built with den = 0 keeps its two numbers as given
FractionStr(v) ==
    IF v.den = 0 THEN ToString(v.num) \o "/" \o ToString(v.den)
    ELSE LET g == GCD(v.num, v.den)
         IN  IF v.den \div g = 1 THEN ToString(v.num \div g)
             ELSE ToString(v.num \div g) \o "/" \o ToString(v.den \div g)

\* str() of an element of values inside an f-string
ElemStr(v) ==
    IF v.kind = "int" THEN ToString(v.num)
    ELSE IF v.kind = "Ratio" THEN FractionStr(v)
    ELSE v.chr

(***************************************************************************)
(* The resolvers.                                                          *)
(***************************************************************************)
\* table.get(values[0], default)
DictGet(table, v, default) ==
    IF v.kind = "int" /\ v.num \in DOMAIN table THEN table[v.num] ELSE default

\* table.get(tag.values[0], default); values[0] raises IndexError on an empty values
Lookup(tag, table, default) ==
    IF HasIndex(tag, 0) THEN Ret(DictGet(table, tag.values[1], default)) ELSE Raise("IndexError")

\* the formatter with the caller's default ignored for the parameter's own
_fraction_to_readable_own_default(fraction, default_value) ==
    IF ~Truthy(fraction) THEN Ret("Unknown")
    ELSE IF ~HasIndex(fraction, 0) THEN Raise("IndexError")
    ELSE IF fraction.values[1].kind = "Ratio" THEN Ret(FractionStr(fraction.values[1]))
    ELSE IF ~HasIndex(fraction, 1) THEN Raise("IndexError")
    ELSE Ret(ElemStr(fraction.values[1]) \o "/" \o ElemStr(fraction.values[2]))

_fraction_to_readable(fraction, default_value) ==
    IF ~Truthy(fraction) THEN Ret(default_value)
    ELSE IF ~HasIndex(fraction, 0) THEN Raise("IndexError")
    ELSE IF fraction.values[1].kind = "Ratio" THEN Ret(FractionStr(fraction.values[1]))
    ELSE IF ~HasIndex(fraction, 1) THEN Raise("IndexError")
    ELSE Ret(ElemStr(fraction.values[1]) \o "/" \o ElemStr(fraction.values[2]))

_get_exposure_mode(t) ==
    LET modes == (0 :> "Auto" @@ 1 :> "Manual" @@ 2 :> "Auto bracket")
        exposure_mode_tag == Get(t, "EXIF ExposureMode")
    IN  IF Truthy(exposure_mode_tag)
        THEN Lookup(exposure_mode_tag, modes, "Unknown")
        ELSE Ret("N/A")

\* the resolver with the absent tag answered like an unmapped code
_get_white_balance_absent_unknown(t) ==
    LET modes == (0 :> "Auto" @@ 1 :> "Manual")
        white_balance_tag == Get(t, "EXIF WhiteBalance")
    IN  IF Truthy(white_balance_tag)
        THEN Lookup(white_balance_tag, modes, "Unknown")
        ELSE Ret("Unknown")

_get_white_balance(t) ==
    LET modes == (0 :> "Auto" @@ 1 :> "Manual")
        white_balance_tag == Get(t, "EXIF WhiteBalance")
    IN  IF Truthy(white_balance_tag)
        THEN Lookup(white_balance_tag, modes, "Unknown")
        ELSE Ret("N/A")

_get_flash_info(t) ==
    LET flash_info == Get(t, "EXIF Flash")
    IN  IF flash_info # None
        THEN IF ~HasIndex(flash_info, 0) THEN Raise("IndexError")
             ELSE LET flash_value == flash_info.values[1]
                  IN  IF PyEq(flash_value, 0) THEN Ret("Flash did not fire")
                      ELSE IF PyEq(flash_value, 1) THEN Ret("Flash fired")
                      ELSE Ret("Unknown")
        ELSE Ret("N/A")

_get_orientation(t) ==
    LET orientations ==
            (1 :> "Normal"
             @@ 2 :> "Mirrored horizontally"
             @@ 3 :> "Rotated 180 degrees"
             @@ 4 :> "Mirrored vertically"
             @@ 5 :> "Mirrored horizontally and rotated 270 degrees CW"
             @@ 6 :> "Rotated 90 degrees CW"
             @@ 7 :> "Mirrored horizontally and rotated 90 degrees CW"
             @@ 8 :> "Rotated 270 degrees CW")
        orientation_tag == Get(t, "Image Orientation")
    IN  IF orientation_tag # None   \* isinstance(orientation_tag, IfdTag)
        THEN Lookup(orientation_tag, orientations, "N/A")
        ELSE Ret("N/A")

_get_color_space(t) ==
    LET color_spaces == (1 :> "sRGB" @@ 2 :> "Adobe RGB")
        color_space_tag == Get(t, "EXIF ColorSpace")
    IN  IF color_space_tag # None   \* isinstance(color_space_tag, IfdTag)
        THEN Lookup(color_space_tag, color_spaces, "N/A")
        ELSE Ret("N/A")

_get_metering_mode(t) ==
    LET modes ==
            (0 :> "Unknown"
             @@ 1 :> "Average"
             @@ 2 :> "Center-weighted average"
             @@ 3 :> "Spot"
             @@ 4 :> "Multi-spot"
             @@ 5 :> "Pattern"
             @@ 6 :> "Partial")
        metering_mode_tag == Get(t, "EXIF MeteringMode")
    IN  IF Truthy(metering_mode_tag)
        THEN Lookup(metering_mode_tag, modes, "Unknown")
        ELSE Ret("N/A")

_get_exposure_program(t) ==
    LET programs ==
            (0 :> "Not defined"
             @@ 1 :> "Manual"
             @@ 2 :> "Normal program"
             @@ 3 :> "Aperture priority"
             @@ 4 :> "Shutter priority"
             @@ 5 :> "Creative program"
             @@ 6 :> "Action program"
             @@ 7 :> "Portrait mode"
             @@ 8 :> "Landscape mode")
        exposure_program_tag == Get(t, "EXIF ExposureProgram")
    IN  IF Truthy(exposure_program_tag)
        THEN Lookup(exposure_program_tag, programs, "Unknown")
        ELSE Ret("N/A")

_get_scene_capture_type(t) ==
    LET types == (0 :> "Standard" @@ 1 :> "Landscape" @@ 2 :> "Portrait" @@ 3 :> "Night scene")
        scene_capture_type_tag == Get(t, "EXIF SceneCaptureType")
    IN  IF Truthy(scene_capture_type_tag)
        THEN Lookup(scene_capture_type_tag, types, "Unknown")
        ELSE Ret("N/A")

_get_resolution_unit(t) ==
    LET units ==
            (1 :> "No absolute unit of measurement" @@ 2 :> "Inches" @@ 3 :> "Centimeters")
        resolution_unit_tag == Get(t, "Image ResolutionUnit")
    IN  IF Truthy(resolution_unit_tag)
        THEN Lookup(resolution_unit_tag, units, "Unknown")
        ELSE Ret("N/A")

_get_resolution(t) ==
    LET x_resolution == _fraction_to_readable(Get(t, "Image XResolution"), "N/A")
        y_resolution == _fraction_to_readable(Get(t, "Image YResolution"), "N/A")
        resolution_unit == _get_resolution_unit(t)
    IN  IF x_resolution.raised THEN x_resolution
        ELSE IF y_resolution.raised THEN y_resolution
        ELSE IF resolution_unit.raised THEN resolution_unit
        ELSE Ret(x_resolution.value \o " x " \o y_resolution.value \o " " \o resolution_unit.value)

_get_ycbcr_positioning(t) ==
    LET positions == (1 :> "Centered" @@ 2 :> "Co-sited")
        ycbcr_positioning_tag == Get(t, "Image YCbCrPositioning")
    IN  IF Truthy(ycbcr_positioning_tag)
        THEN Lookup(ycbcr_positioning_tag, positions, "Unknown")
        ELSE Ret("N/A")

_get_focus_mode(t) ==
    LET focus_modes == (0 :> "Manual" @@ 1 :> "Auto")
        focus_mode_tag == Get(t, "EXIF FocusMode")
    IN  IF Truthy(focus_mode_tag)
        THEN Lookup(focus_mode_tag, focus_modes, "Unknown")
        ELSE Ret("N/A")

_get_shooting_mode(t) ==
    LET shooting_modes == (0 :> "Normal" @@ 1 :> "Portrait" @@ 2 :> "Landscape")
        shooting_mode_tag == Get(t, "EXIF ShootingMode")
    IN  IF Truthy(shooting_mode_tag)
        THEN Lookup(shooting_mode_tag, shooting_modes, "Unknown")
        ELSE Ret("N/A")

\* the resolver with an "Unknown" branch like the table resolvers'
_get_noise_reduction_with_unknown(t) ==
    LET noise_reduction_tag == Get(t, "EXIF NoiseReduction")
    IN  IF Truthy(noise_reduction_tag)
        THEN IF ~HasIndex(noise_reduction_tag, 0) THEN Raise("IndexError")
             ELSE IF PyEq(noise_reduction_tag.values[1], 1) THEN Ret("On")
             ELSE IF PyEq(noise_reduction_tag.values[1], 0) THEN Ret("Off")
             ELSE Ret("Unknown")
        ELSE Ret("N/A")

_get_noise_reduction(t) ==
    LET noise_reduction_tag == Get(t, "EXIF NoiseReduction")
    IN  IF Truthy(noise_reduction_tag)
        THEN IF ~HasIndex(noise_reduction_tag, 0) THEN Raise("IndexError")
             ELSE IF PyEq(noise_reduction_tag.values[1], 1) THEN Ret("On")
             ELSE Ret("Off")
        ELSE Ret("N/A")

\* f"{subject_area_tag.values}": the list's repr, "[a, b, ...]"
RECURSIVE ListItems(_)
ListItems(vs) ==
    IF Len(vs) = 0 THEN ""
    ELSE IF Len(vs) = 1 THEN ElemStr(vs[1])
    ELSE ElemStr(vs[1]) \o ", " \o ListItems(Tail(vs))

_get_subject_area(t) ==
    LET subject_area_tag == Get(t, "EXIF SubjectArea")
    IN  IF Truthy(subject_area_tag)
        THEN Ret("[" \o ListItems(subject_area_tag.values) \o "]")
        ELSE Ret("N/A")

(***************************************************************************)
(* The GPS section.                                                        *)
(***************************************************************************)
\* float(value.values[i].num) / float(value.values[i].den)
RatioToFloat(value, i) ==
    IF ~HasIndex(value, i) THEN Raise("IndexError")
    ELSE IF value.values[i + 1].den = 0 THEN Raise("ZeroDivisionError")
    ELSE Ret(FDiv(value.values[i + 1].num, value.values[i + 1].den))

\* the conversion with the seconds divided by 60
_convert_to_degrees_seconds_by_60(value) ==
    LET d == RatioToFloat(value, 0)
        m == RatioToFloat(value, 1)
        s == RatioToFloat(value, 2)
    IN  IF d.raised THEN d
        ELSE IF m.raised THEN m
        ELSE IF s.raised THEN s
        ELSE Ret(FAdd(FAdd(d.value, FDivBy(m.value, 60)), FDivBy(s.value, 60)))

_convert_to_degrees(value) ==
    LET d == RatioToFloat(value, 0)
        m == RatioToFloat(value, 1)
        s == RatioToFloat(value, 2)
    IN  IF d.raised THEN d
        ELSE IF m.raised THEN m
        ELSE IF s.raised THEN s
        ELSE Ret(FAdd(FAdd(d.value, FDivBy(m.value, 60)), FDivBy(s.value, 3600)))

\* lat_ref.values[0] == 'S', lon_ref.values[0] == 'W'
RefIs(ref, letter) == ref.values[1].kind = "chr" /\ ref.values[1].chr = letter

\* if lat_ref.values[0] == 'S': latitude *= -1 (and the same for 'W')
Hemisphere(x, ref, letter) == IF RefIs(ref, letter) THEN FNeg(x) ELSE x

\* f"{latitude:.5f}° {'S' if lat_ref.values[0] == 'S' else 'N'}"
CoordinateStr(x, ref, letter, other) ==
    FormatFixed(x, 5) \o "° " \o (IF RefIs(ref, letter) THEN letter ELSE other)

\* the block under `if lat and lat_ref and lon and lon_ref`, from gps_info = {}
GpsCoordinates(t) ==
    LET lat == Get(t, "GPS GPSLatitude")
        lat_ref == Get(t, "GPS GPSLatitudeRef")
        lon == Get(t, "GPS GPSLongitude")
        lon_ref == Get(t, "GPS GPSLongitudeRef")
    IN  IF Truthy(lat) /\ Truthy(lat_ref) /\ Truthy(lon) /\ Truthy(lon_ref)
        THEN LET lat0 == _convert_to_degrees(lat)
                 lon0 == _convert_to_degrees(lon)
             IN  IF lat0.raised THEN lat0
                 ELSE IF lon0.raised THEN lon0
                 ELSE LET latitude == Hemisphere(lat0.value, lat_ref, "S")
                          longitude == Hemisphere(lon0.value, lon_ref, "W")
                      IN  Ret("Latitude" :> CoordinateStr(latitude, lat_ref, "S", "N")
                              @@ "Longitude" :> CoordinateStr(longitude, lon_ref, "W", "E")
                              @@ "Google Maps Link" :>
                                     ("https://www.google.com/maps?q=" \o FloatStr(latitude)
                                      \o "," \o FloatStr(longitude)))
        ELSE Ret(<<>>)

\* the altitude added only under the coordinates' `if`
GpsAltitudeWithCoordinates(t, gps_info) ==
    LET alt == Get(t, "GPS GPSAltitude")
        a == RatioToFloat(alt, 0)
    IN  IF ~Truthy(alt) \/ DOMAIN gps_info = {} THEN Ret(gps_info)
        ELSE IF a.raised THEN a
        ELSE Ret(gps_info @@ ("Altitude" :> (FormatFixed(a.value, 2) \o " meters")))

\* if alt: gps_info['Altitude'] = f"{... :.2f} meters"
GpsAltitude(t, gps_info) ==
    LET alt == Get(t, "GPS GPSAltitude")
        a == RatioToFloat(alt, 0)
    IN  IF ~Truthy(alt) THEN Ret(gps_info)
        ELSE IF a.raised THEN a
        ELSE Ret(gps_info @@ ("Altitude" :> (FormatFixed(a.value, 2) \o " meters")))

\* the GPS section is a dict or the str 'N/A'
PyDict(d) == [dict |-> d]

PyStr(s) == [str |-> s]

_extract_gps_info(t) ==
    LET coords == GpsCoordinates(t)
        gps_info == IF coords.raised THEN coords ELSE GpsAltitude(t, coords.value)
    IN  IF gps_info.raised THEN gps_info
        ELSE IF DOMAIN gps_info.value # {} THEN Ret(PyDict(gps_info.value))
        ELSE Ret(PyStr("N/A"))

(***************************************************************************)
(* The sections of the report.                                             *)
(***************************************************************************)
\* a dict display {k1: e1, k2: e2, ...}: the entries are evaluated in order
\* and the first one that raises ends the display
DictDisplay(entries) ==
    IF \E i \in 1..Len(entries) : entries[i][2].raised
    THEN LET i == CHOOSE j \in 1..Len(entries) :
                      /\ entries[j][2].raised
                      /\ \A k \in 1..(j - 1) : ~entries[k][2].raised
         IN  entries[i][2]
    ELSE Ret([k \in {entries[i][1] : i \in 1..Len(entries)} |->
                 LET i == CHOOSE j \in 1..Len(entries) : entries[j][1] = k
                 IN  entries[i][2].value])

\* os.path.basename(file_path) and file_path, of a path kept as directory and name
Basename(path) == path.name

PathStr(path) == path.dir \o path.name

ImagePropertiesSection(f) ==
    LET img == f.image
    IN  ("Format" :> img.format
         @@ "Size" :> (ToString(img.size[1]) \o " x " \o ToString(img.size[2]) \o " pixels")
         @@ "Color Mode" :> img.mode
         @@ "File Size" :> f.size
         @@ "DPI" :> (IF "dpi" \in DOMAIN img.info THEN img.info["dpi"] ELSE "N/A")
         @@ "Duration" :> (IF "duration" \in DOMAIN img.info THEN img.info["duration"] ELSE "N/A"))

CameraInformationSection(t) ==
    DictDisplay(<<
        <<"Make", Ret(StrGet(t, "Image Make", "N/A"))>>,
        <<"Model", Ret(StrGet(t, "Image Model", "N/A"))>>,
        <<"Software", Ret(StrGet(t, "Image Software", "N/A"))>>,
        <<"Lens Model", Ret(StrGet(t, "EXIF LensModel", "N/A"))>>,
        <<"Camera Serial Number", Ret(StrGet(t, "EXIF CameraSerialNumber", "N/A"))>>,
        <<"Date of Manufacture", Ret(StrGet(t, "EXIF DateTimeOriginal", "N/A"))>> >>)

DateAndTimeSection(t) ==
    DictDisplay(<<
        <<"Taken", Ret(StrGet(t, "EXIF DateTimeOriginal", "N/A"))>>,
        <<"Digitized", Ret(StrGet(t, "EXIF DateTimeDigitized", "N/A"))>>,
        <<"DateTime", Ret(StrGet(t, "EXIF DateTime", "N/A"))>>,
        <<"Time Zone Offset", Ret(StrGet(t, "EXIF OffsetTimeOriginal", "N/A"))>> >>)

CameraSettingsSection(t) ==
    DictDisplay(<<
        <<"Exposure Time", _fraction_to_readable(Get(t, "EXIF ExposureTime"), "N/A")>>,
        <<"F-Number", _fraction_to_readable(Get(t, "EXIF FNumber"), "N/A")>>,
        <<"ISO Speed", Ret(StrGet(t, "EXIF ISOSpeedRatings", "N/A"))>>,
        <<"Focal Length",
          PlusStr(_fraction_to_readable(Get(t, "EXIF FocalLength"), "N/A "), "mm")>>,
        <<"Focal Length (35mm equivalent)",
          Ret(StrGet(t, "EXIF FocalLengthIn35mmFilm", "N/A ") \o "mm")>>,
        <<"Exposure Mode", _get_exposure_mode(t)>>,
        <<"White Balance", _get_white_balance(t)>>,
        <<"Flash", _get_flash_info(t)>>,
        <<"Metering Mode", _get_metering_mode(t)>>,
        <<"Exposure Program", _get_exposure_program(t)>>,
        <<"Brightness Value", _fraction_to_readable(Get(t, "EXIF BrightnessValue"), "N/A")>>,
        <<"Exposure Bias", _fraction_to_readable(Get(t, "EXIF ExposureBiasValue"), "N/A")>>,
        <<"Max Aperture Value", _fraction_to_readable(Get(t, "EXIF MaxApertureValue"), "N/A")>>,
        <<"Digital Zoom Ratio", _fraction_to_readable(Get(t, "EXIF DigitalZoomRatio"), "N/A")>>,
        <<"Scene Capture Type", _get_scene_capture_type(t)>>,
        <<"Shutter Speed Value", _fraction_to_readable(Get(t, "EXIF ShutterSpeedValue"), "N/A")>>,
        <<"Aperture Value", _fraction_to_readable(Get(t, "EXIF ApertureValue"), "N/A")>>,
        <<"Color Space", _get_color_space(t)>>,
        <<"Focus Mode", _get_focus_mode(t)>>,
        <<"Shooting Mode", _get_shooting_mode(t)>>,
        <<"Noise Reduction", _get_noise_reduction(t)>>,
        <<"Subject Area", _get_subject_area(t)>> >>)

OtherDetailsSection(t, f) ==
    DictDisplay(<<
        <<"Orientation", _get_orientation(t)>>,
        <<"YCbCr Positioning", _get_ycbcr_positioning(t)>>,
        <<"Resolution", _get_resolution(t)>>,
        <<"Unique Image ID", Ret(StrGet(t, "EXIF ImageUniqueID", "N/A"))>>,
        <<"Exif Version", Ret(StrGet(t, "EXIF ExifVersion", "N/A"))>>,
        <<"Compression", Ret(StrGet(t, "EXIF Compression", "N/A"))>>,
        <<"Image Width", Ret(StrGet(t, "EXIF ExifImageWidth", "N/A"))>>,
        <<"Image Length", Ret(StrGet(t, "EXIF ExifImageLength", "N/A"))>>,
        <<"Subject Distance", _fraction_to_readable(Get(t, "EXIF SubjectDistance"), "N/A")>>,
        <<"Metering Mode", _get_metering_mode(t)>>,
        <<"File Name", Ret(Basename(f.path))>>,
        <<"File Path", Ret(PathStr(f.path))>> >>)

(***************************************************************************)
(* The input files: what exifread.process_file and Image.open find in them. *)
(***************************************************************************)
\* the tags read with str(tags.get(...))
StringTagNames ==
    {"Image Make", "Image Model", "Image Software", "EXIF LensModel",
     "EXIF CameraSerialNumber", "EXIF DateTimeOriginal", "EXIF DateTimeDigitized",
     "EXIF DateTime", "EXIF OffsetTimeOriginal", "EXIF ISOSpeedRatings",
     "EXIF FocalLengthIn35mmFilm", "EXIF ImageUniqueID", "EXIF ExifVersion",
     "EXIF Compression", "EXIF ExifImageWidth", "EXIF ExifImageLength"}

\* the tags whose first value is looked up in a table (and NoiseReduction)
EnumTagNames ==
    {"EXIF ExposureMode", "EXIF WhiteBalance", "EXIF Flash", "EXIF MeteringMode",
     "EXIF ExposureProgram", "EXIF SceneCaptureType", "EXIF ColorSpace",
     "Image ResolutionUnit", "Image YCbCrPositioning", "EXIF FocusMode",
     "EXIF ShootingMode", "Image Orientation", "EXIF NoiseReduction"}

\* the tags given to _fraction_to_readable
RationalTagNames ==
    {"EXIF ExposureTime", "EXIF FNumber", "EXIF FocalLength", "EXIF BrightnessValue",
     "EXIF ExposureBiasValue", "EXIF MaxApertureValue", "EXIF DigitalZoomRatio",
     "EXIF ShutterSpeedValue", "EXIF ApertureValue", "Image XResolution",
     "Image YResolution", "EXIF SubjectDistance"}

GpsRequiredNames ==
    {"GPS GPSLatitude", "GPS GPSLatitudeRef", "GPS GPSLongitude", "GPS GPSLongitudeRef"}

EmptyDir == <<>>

StringTag == IfdTag("A1", <<ChrVal("A"), ChrVal("1")>>)

EnumTag(code) == IfdTag(ToString(code), <<IntVal(code)>>)

\* a tag written with count 0
EmptyTag == IfdTag("[]", <<>>)

RatioTags == {IfdTag(FractionStr(Ratio(n, d)), <<Ratio(n, d)>>) : n \in 0..MaxNum, d \in 0..MaxDen}

\* a "rational" tag a writer stored as one or two whole numbers
WholeTags == {IfdTag("2", <<IntVal(2)>>), IfdTag("[1, 2]", <<IntVal(1), IntVal(2)>>)}

\* degree / minute / second triplets; each coordinate ends within three
\* decimals, where float arithmetic and exact arithmetic print the same
GpsTriplets ==
    {<<Ratio(40, 1), Ratio(0, 1), Ratio(0, 1)>>,
     <<Ratio(74, 1), Ratio(0, 1), Ratio(0, 1)>>,
     <<Ratio(0, 1), Ratio(0, 1), Ratio(0, 1)>>,
     <<Ratio(81, 2), Ratio(30, 1), Ratio(36, 1)>>,
     <<Ratio(40, 1), Ratio(30, 2), Ratio(36, 2)>>,
     <<Ratio(40, 0), Ratio(0, 1), Ratio(0, 1)>>,
     <<Ratio(40, 1), Ratio(30, 0), Ratio(0, 1)>>,
     <<Ratio(40, 1), Ratio(0, 1), Ratio(36, 0)>>,
     <<Ratio(40, 1)>>}

GpsTripletTags == {IfdTag("[d, m, s]", v) : v \in GpsTriplets}

RefTags(letters) == {IfdTag(c, <<ChrVal(c)>>) : c \in letters}

\* the dicts over a subset of the five GPS tags
GpsDirs ==
    LET Opt(S) == S \cup {None}
        Put(key, tag) == IF tag = None THEN <<>> ELSE key :> tag
    IN  {Put("GPS GPSLatitude", lat) @@ Put("GPS GPSLatitudeRef", lat_ref)
         @@ Put("GPS GPSLongitude", lon) @@ Put("GPS GPSLongitudeRef", lon_ref)
         @@ Put("GPS GPSAltitude", alt) :
            lat \in Opt(GpsTripletTags), lat_ref \in Opt(RefTags({"N", "S", "X"})),
            lon \in Opt(GpsTripletTags), lon_ref \in Opt(RefTags({"E", "W", "X"})),
            alt \in Opt(RatioTags)}

EnumDirs == {k :> tag : k \in EnumTagNames, tag \in {EnumTag(c) : c \in 0..MaxCode} \cup {EmptyTag}}

RationalDirs == {k :> tag : k \in RationalTagNames, tag \in RatioTags \cup WholeTags \cup {EmptyTag}}

StringDirs ==
    {k :> StringTag : k \in StringTagNames}
    \cup {"EXIF SubjectArea" :> IfdTag("[1, 2]", <<IntVal(1), IntVal(2)>>)}

\* a camera's file: every tag present, the enumerated ones with the same code
FullDirs ==
    {[k \in StringTagNames |-> StringTag]
     @@ [k \in EnumTagNames |-> EnumTag(c)]
     @@ [k \in RationalTagNames |-> IfdTag("1/2", <<Ratio(1, 2)>>)]
     @@ ("EXIF SubjectArea" :> IfdTag("[1, 2]", <<IntVal(1), IntVal(2)>>))
     @@ ("GPS GPSLatitude" :> IfdTag("[d, m, s]", <<Ratio(40, 1), Ratio(0, 1), Ratio(0, 1)>>))
     @@ ("GPS GPSLatitudeRef" :> IfdTag("N", <<ChrVal("N")>>))
     @@ ("GPS GPSLongitude" :> IfdTag("[d, m, s]", <<Ratio(74, 1), Ratio(0, 1), Ratio(0, 1)>>))
     @@ ("GPS GPSLongitudeRef" :> IfdTag("W", <<ChrVal("W")>>))
     @@ ("GPS GPSAltitude" :> IfdTag("1/2", <<Ratio(1, 2)>>)) : c \in 0..MaxCode}

Dirs == {EmptyDir} \cup StringDirs \cup EnumDirs \cup RationalDirs \cup GpsDirs \cup FullDirs

JpegImage == [format |-> "JPEG", size |-> <<640, 480>>, mode |-> "RGB",
              info |-> ("dpi" :> <<72, 72>>)]

GifImage == [format |-> "GIF", size |-> <<1, 1>>, mode |-> "P",
             info |-> ("duration" :> 100)]

File(exists, decodable, image, parsable, exif) ==
    [path |-> [dir |-> "photos/", name |-> "my_pic.jpg"], exists |-> exists, size |-> 2048,
     decodable |-> decodable, image |-> image, parsable |-> parsable, exif |-> exif]

Files ==
    {File(FALSE, FALSE, JpegImage, FALSE, EmptyDir),    \* no such file
     File(TRUE, FALSE, JpegImage, FALSE, EmptyDir),     \* not an image
     File(TRUE, TRUE, JpegImage, FALSE, EmptyDir),      \* a segment process_file fails on
     File(TRUE, TRUE, GifImage, TRUE, EmptyDir)}        \* an image without a segment
    \cup {File(TRUE, TRUE, JpegImage, TRUE, d) : d \in Dirs}

(***************************************************************************)
(* extract_clean_image_info(file_path), one step per statement.            *)
(***************************************************************************)
\* a block left without closing its handle
WithExitLeak(open, h) == open

\* leaving a `with` block, by its end or by an exception: the handle is closed
WithExit(open, h) == open \ {h}

Init ==
    /\ pc = "isfile"
    /\ file \in Files
    /\ info = <<>>
    /\ tags = <<>>
    /\ handles = {}
    /\ exc = "none"

\* an exception raised under `with open(...) as img_file` leaves the function
Propagate(e) ==
    /\ pc' = "raised"
    /\ exc' = e
    /\ handles' = WithExit(handles, "img_file")

\* info[name] = <a dict display>, then on to the next statement
Assign(name, r, next) ==
    IF r.raised
    THEN Propagate(r.value) /\ UNCHANGED <<file, info, tags>>
    ELSE /\ info' = (name :> r.value) @@ info
         /\ pc' = next
         /\ UNCHANGED <<file, tags, handles, exc>>

IsFile ==
    /\ pc = "isfile"
    /\ IF ~file.exists
       THEN pc' = "raised" /\ exc' = "FileNotFoundError"
       ELSE pc' = "image_open" /\ UNCHANGED exc
    /\ UNCHANGED <<file, info, tags, handles>>

\* Image.open(file_path): opens the file and reads its header; on a file it
\* cannot identify it closes the file again and raises
ImageOpen ==
    /\ pc = "image_open"
    /\ IF ~file.decodable
       THEN pc' = "raised" /\ exc' = "UnidentifiedImageError" /\ UNCHANGED handles
       ELSE pc' = "image_properties" /\ handles' = handles \cup {"img"} /\ UNCHANGED exc
    /\ UNCHANGED <<file, info, tags>>

ImageProperties ==
    /\ pc = "image_properties"
    /\ info' = ("Image Properties" :> ImagePropertiesSection(file)) @@ info
    /\ handles' = WithExit(handles, "img")
    /\ pc' = "open"
    /\ UNCHANGED <<file, tags, exc>>

Open ==
    /\ pc = "open"
    /\ handles' = handles \cup {"img_file"}
    /\ pc' = "process_file"
    /\ UNCHANGED <<file, info, tags, exc>>

ProcessFile ==
    /\ pc = "process_file"
    /\ IF ~file.parsable
       THEN Propagate("process_file error") /\ UNCHANGED tags
       ELSE tags' = file.exif /\ pc' = "camera_information" /\ UNCHANGED <<handles, exc>>
    /\ UNCHANGED <<file, info>>

CameraInformation ==
    /\ pc = "camera_information"
    /\ Assign("Camera Information", CameraInformationSection(tags), "date_and_time")

DateAndTime ==
    /\ pc = "date_and_time"
    /\ Assign("Date and Time", DateAndTimeSection(tags), "camera_settings")

CameraSettings ==
    /\ pc = "camera_settings"
    /\ Assign("Camera Settings", CameraSettingsSection(tags), "gps_information")

GpsInformation ==
    /\ pc = "gps_information"
    /\ Assign("GPS Information", _extract_gps_info(tags), "other_details")

OtherDetails ==
    /\ pc = "other_details"
    /\ Assign("Other Details", OtherDetailsSection(tags, file), "with_exit")

CloseFile ==
    /\ pc = "with_exit"
    /\ handles' = WithExit(handles, "img_file")
    /\ pc' = "return"
    /\ UNCHANGED <<file, info, tags, exc>>

Return ==
    /\ pc = "return"
    /\ pc' = "returned"
    /\ UNCHANGED <<file, info, tags, handles, exc>>

Next ==
    \/ IsFile
    \/ ImageOpen
    \/ ImageProperties
    \/ Open
    \/ ProcessFile
    \/ CameraInformation
    \/ DateAndTime
    \/ CameraSettings
    \/ GpsInformation
    \/ OtherDetails
    \/ CloseFile
    \/ Return

Spec == Init /\ [][Next]_vars

\* The files whose tags all carry the values their type promises: a first
\* value everywhere, three rationals in a GPS triplet, a Ratio in every tag
\* given to _fraction_to_readable.
WellFormed(d) ==
    \A k \in DOMAIN d :
        /\ Len(d[k].values) >= (IF k \in {"GPS GPSLatitude", "GPS GPSLongitude"} THEN 3 ELSE 1)
        /\ k \in RationalTagNames => d[k].values[1].kind = "Ratio"

InitWellFormed == Init /\ WellFormed(file.exif)

SpecWellFormed == InitWellFormed /\ [][Next]_vars

(***************************************************************************)
(* Properties.                                                             *)
(***************************************************************************)
Returned == pc = "returned"

\* the GPS section has been put into the report
GpsBuilt == "GPS Information" \in DOMAIN info

Present(key) == key \in DOMAIN tags

\* the first value of a present tag, as a number
Code(key) == tags[key].values[1].num

\* The twelve mapped-enum resolvers as the specification lists them: the tag
\* each reads, its code -> label table, and the report field that shows it.
\* Resolution Unit has no field of its own (section ""): it is the last part
\* of Resolution and is read off the resolver.
SpecEnum(name, tag, section, table) == [name |-> name, tag |-> tag, section |-> section, table |-> table]

SpecResolvers ==
    {SpecEnum("Exposure Mode", "EXIF ExposureMode", "Camera Settings",
              0 :> "Auto" @@ 1 :> "Manual" @@ 2 :> "Auto bracket"),
     SpecEnum("White Balance", "EXIF WhiteBalance", "Camera Settings",
              0 :> "Auto" @@ 1 :> "Manual"),
     SpecEnum("Flash", "EXIF Flash", "Camera Settings",
              0 :> "Flash did not fire" @@ 1 :> "Flash fired"),
     SpecEnum("Metering Mode", "EXIF MeteringMode", "Camera Settings",
              0 :> "Unknown" @@ 1 :> "Average" @@ 2 :> "Center-weighted average" @@ 3 :> "Spot"
              @@ 4 :> "Multi-spot" @@ 5 :> "Pattern" @@ 6 :> "Partial"),
     SpecEnum("Exposure Program", "EXIF ExposureProgram", "Camera Settings",
              0 :> "Not defined" @@ 1 :> "Manual" @@ 2 :> "Normal program"
              @@ 3 :> "Aperture priority" @@ 4 :> "Shutter priority" @@ 5 :> "Creative program"
              @@ 6 :> "Action program" @@ 7 :> "Portrait mode" @@ 8 :> "Landscape mode"),
     SpecEnum("Scene Capture Type", "EXIF SceneCaptureType", "Camera Settings",
              0 :> "Standard" @@ 1 :> "Landscape" @@ 2 :> "Portrait" @@ 3 :> "Night scene"),
     SpecEnum("Color Space", "EXIF ColorSpace", "Camera Settings",
              1 :> "sRGB" @@ 2 :> "Adobe RGB"),
     SpecEnum("Resolution Unit", "Image ResolutionUnit", "",
              1 :> "No absolute unit of measurement" @@ 2 :> "Inches" @@ 3 :> "Centimeters"),
     SpecEnum("YCbCr Positioning", "Image YCbCrPositioning", "Other Details",
              1 :> "Centered" @@ 2 :> "Co-sited"),
     SpecEnum("Focus Mode", "EXIF FocusMode", "Camera Settings",
              0 :> "Manual" @@ 1 :> "Auto"),
     SpecEnum("Shooting Mode", "EXIF ShootingMode", "Camera Settings",
              0 :> "Normal" @@ 1 :> "Portrait" @@ 2 :> "Landscape"),
     SpecEnum("Orientation", "Image Orientation", "Other Details",
              1 :> "Normal" @@ 2 :> "Mirrored horizontally" @@ 3 :> "Rotated 180 degrees"
              @@ 4 :> "Mirrored vertically"
              @@ 5 :> "Mirrored horizontally and rotated 270 degrees CW"
              @@ 6 :> "Rotated 90 degrees CW"
              @@ 7 :> "Mirrored horizontally and rotated 90 degrees CW"
              @@ 8 :> "Rotated 270 degrees CW")}

\* what the report shows for a resolver
Shown(e) == IF e.section = "" THEN _get_resolution_unit(tags).value ELSE info[e.section][e.name]

\* C1: in a returned report, every mapped-enum resolver whose tag is present
\* with a first value that is no key of its table shows "Unknown".
C1_UnmappedCodeIsUnknown ==
    Returned =>
        \A e \in SpecResolvers :
            (Present(e.tag) /\ Code(e.tag) \notin DOMAIN e.table) => Shown(e) = "Unknown"

\* C2: in a returned report, every mapped-enum resolver shows "N/A" when its
\* tag is absent and the label its table lists when the tag's first value is
\* a key of the table.
C2_AbsentAndMapped ==
    Returned =>
        \A e \in SpecResolvers :
            /\ ~Present(e.tag) => Shown(e) = "N/A"
            /\ (Present(e.tag) /\ Code(e.tag) \in DOMAIN e.table) => Shown(e) = e.table[Code(e.tag)]

\* a report of a file with Orientation 6 and no Flash tag
C2_Witness ==
    /\ Returned
    /\ Present("Image Orientation") /\ Code("Image Orientation") = 6
    /\ info["Other Details"]["Orientation"] = "Rotated 90 degrees CW"
    /\ ~Present("EXIF Flash")
    /\ info["Camera Settings"]["Flash"] = "N/A"

SomeRequiredAbsent == \E k \in GpsRequiredNames : ~Present(k)

\* C3 as claimed: once the GPS section is in the report, it is the str "N/A"
\* whenever one of the four required tags is absent, GPSAltitude present or not.
C3_AltitudeAloneDropped ==
    (GpsBuilt /\ SomeRequiredAbsent) => info["GPS Information"] = PyStr("N/A")

\* C3 as amended: with one of the four required tags absent, the GPS section
\* is the str "N/A" exactly when GPSAltitude is absent too; with GPSAltitude
\* present it is a dict holding the Altitude field and nothing else.
C3_AltitudeAloneReported ==
    (GpsBuilt /\ SomeRequiredAbsent) =>
        IF Present("GPS GPSAltitude")
        THEN /\ info["GPS Information"] # PyStr("N/A")
             /\ DOMAIN info["GPS Information"].dict = {"Altitude"}
        ELSE info["GPS Information"] = PyStr("N/A")

\* a report whose file has GPSAltitude 1/2 and no GPSLatitude
C3_Witness ==
    /\ GpsBuilt
    /\ ~Present("GPS GPSLatitude")
    /\ Present("GPS GPSAltitude")
    /\ tags["GPS GPSAltitude"].values = <<Ratio(1, 2)>>
    /\ info["GPS Information"] = PyDict("Altitude" :> "0.50 meters")

\* the fields of each section that are resolved from tags
TagFields ==
    [s \in {"Camera Information", "Date and Time", "Camera Settings", "Other Details"} |->
        IF s = "Camera Information"
        THEN {"Make", "Model", "Software", "Lens Model", "Camera Serial Number",
              "Date of Manufacture"}
        ELSE IF s = "Date and Time"
        THEN {"Taken", "Digitized", "DateTime", "Time Zone Offset"}
        ELSE IF s = "Camera Settings"
        THEN {"Exposure Time", "F-Number", "ISO Speed", "Focal Length",
              "Focal Length (35mm equivalent)", "Exposure Mode", "White Balance", "Flash",
              "Metering Mode", "Exposure Program", "Brightness Value", "Exposure Bias",
              "Max Aperture Value", "Digital Zoom Ratio", "Scene Capture Type",
              "Shutter Speed Value", "Aperture Value", "Color Space", "Focus Mode",
              "Shooting Mode", "Noise Reduction", "Subject Area"}
        ELSE {"Orientation", "YCbCr Positioning", "Resolution", "Unique Image ID",
              "Exif Version", "Compression", "Image Width", "Image Length",
              "Subject Distance", "Metering Mode"}]

\* the report of a file whose tag directory is empty
EmptyDirReport == Returned /\ DOMAIN tags = {}

ImagePropertiesPopulated ==
    /\ info["Image Properties"]["Format"] = file.image.format
    /\ info["Image Properties"]["Size"] =
           ToString(file.image.size[1]) \o " x " \o ToString(file.image.size[2]) \o " pixels"
    /\ info["Image Properties"]["Color Mode"] = file.image.mode
    /\ info["Image Properties"]["File Size"] = file.size

\* C4 as claimed: the report of a file with an empty tag directory has "N/A"
\* in every tag-derived field and as its GPS section, and Format, Size, Color
\* Mode and File Size from the container.
C4_EveryFieldIsNA ==
    EmptyDirReport =>
        /\ \A s \in DOMAIN TagFields : \A f \in TagFields[s] : info[s][f] = "N/A"
        /\ info["GPS Information"] = PyStr("N/A")
        /\ ImagePropertiesPopulated

\* the three fields that are composed around the sentinel
ComposedFields ==
    <<"Camera Settings", "Focal Length">> :> "N/A mm"
    @@ <<"Camera Settings", "Focal Length (35mm equivalent)">> :> "N/A mm"
    @@ <<"Other Details", "Resolution">> :> "N/A x N/A N/A"

\* C4 as amended: as claimed, except that Focal Length and Focal Length (35mm
\* equivalent) are "N/A mm" and Resolution is "N/A x N/A N/A".
C4_EveryFieldIsNAOrComposed ==
    EmptyDirReport =>
        /\ \A s \in DOMAIN TagFields : \A f \in TagFields[s] :
               info[s][f] = IF <<s, f>> \in DOMAIN ComposedFields THEN ComposedFields[<<s, f>>]
                            ELSE "N/A"
        /\ info["GPS Information"] = PyStr("N/A")
        /\ ImagePropertiesPopulated

\* the report of the GIF without a metadata segment
C4_Witness ==
    /\ EmptyDirReport
    /\ file.image.format = "GIF"
    /\ info["Image Properties"]["Size"] = "1 x 1 pixels"
    /\ info["Camera Settings"]["Exposure Time"] = "N/A"

\* process_file has returned the tag directory
Parsed == pc \notin {"isfile", "image_open", "image_properties", "open", "process_file"}
          /\ ~(pc = "raised" /\ exc \in {"FileNotFoundError", "UnidentifiedImageError",
                                         "process_file error"})

\* the tag holds a rational whose denominator is 0
ZeroDenominator(key) ==
    /\ Present(key)
    /\ Len(tags[key].values) > 0
    /\ tags[key].values[1].kind = "Ratio"
    /\ tags[key].values[1].den = 0

\* C5: for every tag the Rational formatter is given, called with the default
\* "X" it does not raise, and it returns "X" when the tag is absent and when
\* the tag's rational has denominator 0.
C5_DefaultOnAbsentOrZeroDenominator ==
    Parsed =>
        \A k \in RationalTagNames :
            LET r == _fraction_to_readable(Get(tags, k), "X")
            IN  /\ ~r.raised
                /\ (~Present(k) \/ ZeroDenominator(k)) => r.value = "X"

\* C6: once the file exists and the container is decoded and process_file has
\* returned, extract raises nothing: the only exceptions it ends with are those
\* of the existence check, the container decode and process_file.
C6_ReportNeverRaises ==
    pc = "raised" => exc \in {"FileNotFoundError", "UnidentifiedImageError", "process_file error"}

AllRequiredPresent == \A k \in GpsRequiredNames : Present(k)

\* degrees + minutes/60 + seconds/3600 of a triplet, as one fraction over
\* 3600 * (the three denominators), negative when the ref is the given letter
SignedDegrees(triplet, ref, letter) ==
    LET d == triplet.values[1]
        m == triplet.values[2]
        s == triplet.values[3]
    IN  Float(ref.values[1].chr = letter,
              3600 * d.num * m.den * s.den + 60 * m.num * d.den * s.den + s.num * d.den * m.den,
              3600 * d.den * m.den * s.den)

ExpectedLatitude == SignedDegrees(tags["GPS GPSLatitude"], tags["GPS GPSLatitudeRef"], "S")

ExpectedLongitude == SignedDegrees(tags["GPS GPSLongitude"], tags["GPS GPSLongitudeRef"], "W")

\* C7: with the four required tags present, the Google Maps Link of the GPS
\* section is built from degrees + minutes/60 + seconds/3600 of each triplet,
\* the latitude negated exactly when its ref is 'S' and the longitude exactly
\* when its ref is 'W'.
C7_SignedCoordinatesInLink ==
    (GpsBuilt /\ AllRequiredPresent) =>
        info["GPS Information"].dict["Google Maps Link"] =
            "https://www.google.com/maps?q=" \o FloatStr(ExpectedLatitude)
            \o "," \o FloatStr(ExpectedLongitude)

\* 40 deg 30/2 min 36/2 sec south, 81/2 deg 30 min 36 sec with ref 'X'
C7_Witness ==
    /\ GpsBuilt /\ AllRequiredPresent
    /\ tags["GPS GPSLatitude"].values = <<Ratio(40, 1), Ratio(30, 2), Ratio(36, 2)>>
    /\ tags["GPS GPSLatitudeRef"].values = <<ChrVal("S")>>
    /\ tags["GPS GPSLongitude"].values = <<Ratio(81, 2), Ratio(30, 1), Ratio(36, 1)>>
    /\ tags["GPS GPSLongitudeRef"].values = <<ChrVal("X")>>
    /\ info["GPS Information"].dict["Google Maps Link"] =
           "https://www.google.com/maps?q=-40.255,41.01"

\* the value without its sign
Magnitude(x) == [x EXCEPT !.neg = FALSE]

\* C8: with the four required tags present, Latitude and Longitude show the
\* magnitude to 5 decimals and the hemisphere letter, with no minus sign, and
\* the link carries the signed values; (40,0,0) 'N' and (74,0,0) 'W' give
\* "40.00000° N", "74.00000° W" and a link of 40.0 and -74.0.
C8_MagnitudeAndLetter ==
    (GpsBuilt /\ AllRequiredPresent) =>
        LET gps == info["GPS Information"].dict
        IN  /\ gps["Latitude"] =
                   FormatFixed(Magnitude(ExpectedLatitude), 5) \o "° "
                   \o (IF ExpectedLatitude.neg THEN "S" ELSE "N")
            /\ gps["Longitude"] =
                   FormatFixed(Magnitude(ExpectedLongitude), 5) \o "° "
                   \o (IF ExpectedLongitude.neg THEN "W" ELSE "E")
            /\ (/\ tags["GPS GPSLatitude"].values = <<Ratio(40, 1), Ratio(0, 1), Ratio(0, 1)>>
                /\ tags["GPS GPSLatitudeRef"].values = <<ChrVal("N")>>
                /\ tags["GPS GPSLongitude"].values = <<Ratio(74, 1), Ratio(0, 1), Ratio(0, 1)>>
                /\ tags["GPS GPSLongitudeRef"].values = <<ChrVal("W")>>)
               => /\ gps["Latitude"] = "40.00000° N"
                  /\ gps["Longitude"] = "74.00000° W"
                  /\ gps["Google Maps Link"] = "https://www.google.com/maps?q=40.0,-74.0"

\* C9: in a returned report, Noise Reduction is "N/A" when the tag is absent,
\* "On" when its first value is 1 and "Off" for every other first value.
C9_NoiseReduction ==
    Returned =>
        info["Camera Settings"]["Noise Reduction"] =
            IF ~Present("EXIF NoiseReduction") THEN "N/A"
            ELSE IF Code("EXIF NoiseReduction") = 1 THEN "On"
            ELSE "Off"

\* a report of a file with NoiseReduction 2
C9_Witness ==
    /\ Returned
    /\ Present("EXIF NoiseReduction") /\ Code("EXIF NoiseReduction") = 2
    /\ info["Camera Settings"]["Noise Reduction"] = "Off"

\* C10: when extract has ended, by returning or by raising, no file handle
\* that it opened is still open.
C10_HandlesReleased ==
    pc \in {"returned", "raised"} => handles = {}

\* extract ended by an exception raised while img_file was open
C10_Witness ==
    /\ pc = "raised"
    /\ exc = "ZeroDivisionError"
    /\ "Camera Settings" \in DOMAIN info
    /\ handles = {}

====
